---- MODULE Spec2Model ----
(***************************************************************************)
(* Checkerboard spin lattice of mchabrol/Interactions-MVA: the two         *)
(* sublattices black (A) and white (B), the heat-bath sweep `update`, the  *)
(* neutral-agent construction and the crash operator, the constructors of  *)
(* the five variants as calls, the privileged draw and reconstruct_grid.   *)
(*                                                                         *)
(* Numbers.  Fractions are pairs <<num, den>>.  A heat-bath probability    *)
(* p = 1/(1+exp(field)) is kept as its field scaled by number_of_traders   *)
(* (an integer for integer couplings); a uniform draw u is kept as its     *)
(* scaled logit theta = number_of_traders * ln(1/u - 1), so that           *)
(* `random() < p` is exactly `field < theta` (p is strictly decreasing in  *)
(* the field).                                                             *)
(***************************************************************************)
EXTENDS Integers, Sequences, FiniteSets, TLC

VARIABLES
    variant,                    \* which SpinSystem class the object is
    grid_height, grid_width,    \* self.grid_height, self.grid_width
    init_up,                    \* self.init_up
    fraction_neutral,           \* self.fraction_neutral
    region_neutral,             \* self.region_neutral
    neutral_cells,              \* history: full-grid cells made neutral at construction
    black, white,               \* self.black, self.white
    pc,                         \* position of the running call
    row, col,                   \* loop indices of _update_strategies
    reduced_neighbour_coupling, \* argument of update
    reduced_alpha,              \* argument of update
    excluding_neutrals,         \* argument of update
    number_of_traders,          \* local of update
    global_market,              \* local of update
    market_coupling,            \* local of update, <<num, den>>
    probabilities,              \* local of update, the table
    entry_sum,                  \* history: lattice sum when update was entered
    resampled,                  \* history: draws made for each cell this sweep
    ret,                        \* value returned by the last update call
    error,                      \* exception raised by the last call
    reads,                      \* cells read by the last neighbour sum
    neighbour_sum,              \* result of the last neighbour sum
    privileged_fraction,        \* self.privileged_fraction
    privileged_flip_factor,     \* self.privileged_flip_factor
    black_privileged,           \* self.black_privileged, cell -> BOOLEAN
    white_privileged,           \* self.white_privileged, cell -> BOOLEAN
    privileged_chosen,          \* history: the two masks as construction left them
    init_draws,                 \* history: the draws _init_spins consumed
    full_grid,                  \* history: full_grid at the end of _init_spins
    grid,                       \* value returned by the last reconstruct_grid call
    before,                     \* history: <<black, white>> when the last crash call began
    call,                       \* history: <<fraction, region>> of the last crash call
    base_prob, prob,            \* locals of _update_subgrid
    draw,                       \* history: the value random() returned for `prob`
    pending,                    \* cells of the running phase not yet evaluated
    phase_draws,                \* the draw each cell of the running phase gets
    phase_start                 \* history: the active sublattice when the phase began

vars == <<variant, grid_height, grid_width, init_up, fraction_neutral,
          region_neutral, neutral_cells, black, white, pc, row, col,
          reduced_neighbour_coupling, reduced_alpha, excluding_neutrals,
          number_of_traders, global_market, market_coupling, probabilities,
          entry_sum, resampled, ret, error, reads, neighbour_sum,
          privileged_fraction, privileged_flip_factor, black_privileged,
          white_privileged, privileged_chosen, init_draws, full_grid, grid,
          before, call, base_prob, prob, draw, pending, phase_draws, phase_start>>

config == <<variant, grid_height, grid_width, init_up, fraction_neutral,
            region_neutral, neutral_cells, privileged_fraction,
            privileged_flip_factor, black_privileged, white_privileged,
            privileged_chosen>>

\* what construction and reconstruct_grid leave behind, and the locals of
\* one privileged draw
past == <<init_draws, full_grid, grid, base_prob, prob, draw>>

shock == <<before, call>>

\* the evaluation of one phase in an order other than that of the loop
schedule == <<pending, phase_draws, phase_start>>

locals == <<reduced_neighbour_coupling, reduced_alpha, excluding_neutrals,
            number_of_traders, global_market, market_coupling, probabilities>>

----------------------------------------------------------------------------
(* Bounds of the model *)

MaxH == 2
MaxWc == 2
MaxColourCells == 2
TopoMaxH == 3
TopoMaxWc == 4

Variants == {"base", "neutral", "krach"}
Regions == {"random", "top_left", "top_right", "bottom_left", "bottom_right"}
CrashRegions == Regions \cup {"center"}
Fractions == {<<0, 1>>, <<1, 2>>, <<1, 1>>}
InitUps == {<<1, 2>>}
InitDraws == {<<1, 4>>, <<3, 4>>}
Couplings == {<<0, 0>>, <<1, 2>>}
Thetas == {-1000, 0, 1000}

AllVariants == Variants \cup {"advantage", "object"}
\* arguments no constructor should accept: a zero and a negative height, an
\* odd width, a fraction above 1
InvalidShapes == {<<0, 2>>, <<-1, 2>>, <<1, 3>>}
BuildInitUps == {<<0, 1>>, <<1, 2>>, <<1, 1>>, <<3, 2>>}
BuildFractions == Fractions \cup {<<3, 2>>}
\* the 4 x 4 grid of the shock scenario
ScenarioShape == <<4, 4>>
\* privileged_flip_factor of the lattices that are swept
SweepFactors == {<<1, 1>>, <<2, 1>>}
\* one privileged draw: table values, factors and uniform draws in [0, 1)
ProbGrid == {<<0, 1>>, <<1, 4>>, <<1, 2>>, <<3, 4>>, <<1, 1>>}
PrivFactors == {<<1, 2>>, <<1, 1>>, <<3, 2>>, <<2, 1>>, <<4, 1>>}
UniformDraws == {<<0, 1>>, <<1, 4>>, <<1, 2>>, <<3, 4>>}

----------------------------------------------------------------------------
(* Arithmetic helpers *)

Abs(x) == IF x < 0 THEN -x ELSE x

FracLess(a, b) == a[1] * b[2] < b[1] * a[2]

\* int(x) of Python for the quotient a / b, b > 0: truncation toward zero
TruncDiv(a, b) == IF a >= 0 THEN a \div b ELSE -((-a) \div b)

\* int(fraction * n) for a fraction in [0, 1] and n >= 0
IntOfProduct(f, n) == TruncDiv(f[1] * n, f[2])

IndexError == -1

\* numpy / list indexing of an axis of length n with a possibly negative index
NpIndex(i, n) ==
    IF i >= 0 /\ i < n THEN i
    ELSE IF i < 0 /\ i >= -n THEN i + n
    ELSE IndexError

Cells(h, w) == (0 .. h - 1) \X (0 .. w - 1)

RECURSIVE SumOver(_, _)
SumOver(f, S) ==
    IF S = {} THEN 0
    ELSE LET x == CHOOSE y \in S : TRUE IN f[x] + SumOver(f, S \ {x})

\* np.sum(self.black + self.white)
LatticeSum(b, w) == SumOver(b, DOMAIN b) + SumOver(w, DOMAIN w)

color_width == grid_width \div 2

----------------------------------------------------------------------------
(* Neighbour topology: _compute_neighbour_sum *)

\* the variants that wrap row - 1 and col - 1 explicitly
WrapsExplicitly(v) == v = "neutral"

upper_neighbor_row(v, h, r) ==
    IF WrapsExplicitly(v)
    THEN (IF r - 1 >= 0 THEN r - 1 ELSE h - 1)
    ELSE r - 1

\* mutant: the row below is taken without the periodic wrap
LowerNeighborRowNoWrap(h, r) == r + 1

lower_neighbor_row(h, r) == IF r + 1 < h THEN r + 1 ELSE 0

\* mutant: the column to the right is taken without the periodic wrap
RightNeighborColNoWrap(w, c) == c + 1

right_neighbor_col(w, c) == IF c + 1 < w THEN c + 1 ELSE 0

left_neighbor_col(v, w, c) ==
    IF WrapsExplicitly(v)
    THEN (IF c - 1 >= 0 THEN c - 1 ELSE w - 1)
    ELSE c - 1

\* mutant: both colours take the same side of a row
HorizontalNeighborColSameSide(v, is_black, w, r, c) ==
    IF r % 2 # 0 THEN left_neighbor_col(v, w, c) ELSE right_neighbor_col(w, c)

\* mutant: the two colours take each other's side
HorizontalNeighborColSwapped(v, is_black, w, r, c) ==
    IF is_black
    THEN (IF r % 2 # 0 THEN right_neighbor_col(w, c) ELSE left_neighbor_col(v, w, c))
    ELSE (IF r % 2 # 0 THEN left_neighbor_col(v, w, c) ELSE right_neighbor_col(w, c))

\* `row % 2` is the truth value tested: non-zero (odd row) selects the first branch
horizontal_neighbor_col(v, is_black, w, r, c) ==
    IF is_black
    THEN (IF r % 2 # 0 THEN left_neighbor_col(v, w, c) ELSE right_neighbor_col(w, c))
    ELSE (IF r % 2 # 0 THEN right_neighbor_col(w, c) ELSE left_neighbor_col(v, w, c))

\* The four subscripts source[., .] of the sum, in the order of the code,
\* before the array resolves them: up, down, self-aligned, horizontal.
NeighbourSubscripts(v, is_black, h, w, r, c) ==
    << <<upper_neighbor_row(v, h, r), c>>,
       <<lower_neighbor_row(h, r), c>>,
       <<r, c>>,
       <<r, horizontal_neighbor_col(v, is_black, w, r, c)>> >>

\* source[i, j] on an array of shape (h, w): the cell read, or IndexError
Resolve(h, w, ij) ==
    LET i == NpIndex(ij[1], h)
        j == NpIndex(ij[2], w)
    IN IF i = IndexError \/ j = IndexError THEN <<IndexError, IndexError>> ELSE <<i, j>>

NeighbourReads(v, is_black, h, w, r, c) ==
    LET sub == NeighbourSubscripts(v, is_black, h, w, r, c)
    IN [k \in 1 .. 4 |-> Resolve(h, w, sub[k])]

ReadsRaise(rd) == \E k \in 1 .. 4 : rd[k][1] = IndexError

\* int(neighbour_sum) over the cells read
ComputeNeighbourSum(v, is_black, source, h, w, r, c) ==
    LET rd == NeighbourReads(v, is_black, h, w, r, c)
    IN source[rd[1]] + source[rd[2]] + source[rd[3]] + source[rd[4]]

----------------------------------------------------------------------------
(* Construction: __init__ and _init_spins *)

\* base and crash variants: a cell becomes -1 when its draw is below init_up.
\* draws maps the cells of the full grid; black takes the left half of the
\* draws and white the right half (black is filled first).
InitSpinsArray(h, w, up, draws, offset) ==
    [rc \in Cells(h, w) |->
        IF FracLess(draws[<<rc[1], offset + rc[2]>>], up) THEN -1 ELSE 1]

\* neutral variant: the cells of the full grid that may be made neutral
RegionIndices(region, h, gw) ==
    LET half_h == h \div 2
        half_w == gw \div 2
    IN CASE region = "random" -> Cells(h, gw)
         [] region = "top_left" -> (0 .. half_h - 1) \X (0 .. half_w - 1)
         [] region = "top_right" -> (0 .. half_h - 1) \X (half_w .. gw - 1)
         [] region = "bottom_left" -> (half_h .. h - 1) \X (0 .. half_w - 1)
         [] region = "bottom_right" -> (half_h .. h - 1) \X (half_w .. gw - 1)
         [] OTHER -> {}

Min(a, b) == IF a < b THEN a ELSE b

\* how many cells _init_spins sets to 0
NumNeutralPlaced(region, f, h, gw) ==
    IF region = "random"
    THEN IntOfProduct(f, h * gw)
    ELSE LET n == Cardinality(RegionIndices(region, h, gw))
         IN Min(IntOfProduct(f, n), n)

\* mutant: the choice is made with replacement, a member may be drawn twice
ChoicesWithReplacement(population, n) ==
    {S \in SUBSET population : Cardinality(S) <= n /\ (n > 0 => S # {})}

\* np.random.choice(population, n, replace=False): any n distinct members
Choices(population, n) == {S \in SUBSET population : Cardinality(S) = n}

\* mutant: the neutral variant draws like the other variants, -1 below init_up
FullGridDownBelow(h, gw, up, neutral, draws) ==
    [ij \in Cells(h, gw) |->
        IF ij \in neutral THEN 0
        ELSE IF FracLess(draws[ij], up) THEN -1 ELSE 1]

\* neutral variant: a non-neutral cell becomes +1 when its draw is below init_up
FullGrid(h, gw, up, neutral, draws) ==
    [ij \in Cells(h, gw) |->
        IF ij \in neutral THEN 0
        ELSE IF FracLess(draws[ij], up) THEN 1 ELSE -1]

\* full_grid[:, ::2] and full_grid[:, 1::2]
ColumnSlice(fg, h, wc, start) ==
    [rc \in Cells(h, wc) |-> fg[<<rc[1], 2 * rc[2] + start>>]]

\* the shapes (grid_height, grid_width // 2) of a sublattice
Dims == {d \in (1 .. MaxH) \X (1 .. MaxWc) : d[1] * d[2] <= MaxColourCells}

NoLocals ==
    /\ reduced_neighbour_coupling = 0
    /\ reduced_alpha = 0
    /\ excluding_neutrals = FALSE
    /\ number_of_traders = 0
    /\ global_market = 0
    /\ market_coupling = <<0, 1>>
    /\ probabilities = <<>>

\* no call has been made yet
NoCalls ==
    /\ row = 0
    /\ col = 0
    /\ NoLocals
    /\ entry_sum = 0
    /\ resampled = <<>>
    /\ ret = <<>>
    /\ error = "none"
    /\ reads = <<>>
    /\ neighbour_sum = 0
    /\ grid = <<>>
    /\ before = <<>>
    /\ call = <<>>
    /\ base_prob = <<>>
    /\ prob = <<>>
    /\ draw = <<>>
    /\ pending = {}
    /\ phase_draws = <<>>
    /\ phase_start = <<>>

\* the variants other than the privileged one have no mask
NoPrivileged ==
    /\ privileged_fraction = <<0, 1>>
    /\ privileged_flip_factor = <<1, 1>>
    /\ black_privileged = <<>>
    /\ white_privileged = <<>>
    /\ privileged_chosen = <<>>

\* black_privileged / white_privileged after `ravel()[indices] = True`
Mask(h, wc, indices) == [rc \in Cells(h, wc) |-> rc \in indices]

Constructed(v, h, wc) ==
    /\ variant = v
    /\ grid_height = h
    /\ grid_width = 2 * wc
    /\ init_up \in InitUps
    /\ \E draws \in [Cells(h, 2 * wc) -> InitDraws] :
         IF v = "neutral"
         THEN /\ fraction_neutral \in Fractions
              /\ region_neutral \in Regions
              /\ \E neutral \in Choices(RegionIndices(region_neutral, h, 2 * wc),
                                        NumNeutralPlaced(region_neutral,
                                                         fraction_neutral, h, 2 * wc)) :
                   LET fg == FullGrid(h, 2 * wc, init_up, neutral, draws)
                   IN /\ neutral_cells = neutral
                      /\ black = ColumnSlice(fg, h, wc, 0)
                      /\ white = ColumnSlice(fg, h, wc, 1)
         ELSE /\ fraction_neutral = <<0, 1>>
              /\ region_neutral = "random"
              /\ neutral_cells = {}
              /\ black = InitSpinsArray(h, wc, init_up, draws, 0)
              /\ white = InitSpinsArray(h, wc, init_up, draws, wc)
    /\ IF v = "advantage"
       THEN /\ privileged_fraction \in Fractions
            /\ privileged_flip_factor \in SweepFactors
            /\ \E indices_black \in Choices(Cells(h, wc),
                                            IntOfProduct(privileged_fraction, h * wc)) :
                 black_privileged = Mask(h, wc, indices_black)
            /\ \E indices_white \in Choices(Cells(h, wc),
                                            IntOfProduct(privileged_fraction, h * wc)) :
                 white_privileged = Mask(h, wc, indices_white)
            /\ privileged_chosen = <<black_privileged, white_privileged>>
       ELSE NoPrivileged
    /\ init_draws = <<>>
    /\ full_grid = <<>>
    /\ pc = "idle"
    /\ NoCalls

Init == \E v \in Variants : \E d \in Dims : Constructed(v, d[1], d[2])

----------------------------------------------------------------------------
(* Construction as a call: __init__ with its arguments, valid or not *)

\* np.ones(color_shape) raises ValueError for a negative dimension
ShapeRaises(h, wc) == h < 0 \/ wc < 0

\* np.random.choice(population, n, replace=False) raises ValueError
ChoiceRaises(population_size, n) == n < 0 \/ n > population_size

\* `self.black[:, :] = full_grid[:, ::2]` raises ValueError: full_grid[:, ::2]
\* has (gw + 1) // 2 columns, self.black has gw // 2, and only one column
\* broadcasts
SliceRaises(gw) ==
    LET columns == (gw + 1) \div 2
    IN columns # gw \div 2 /\ columns # 1

\* mutant: every region tag other than "random" is taken for a quadrant
IsQuadrantOrOther(region) == region # "random"

\* the four `elif region == ...` tests of induce_local_crash and _init_spins
IsQuadrant(region) ==
    region \in {"top_left", "top_right", "bottom_left", "bottom_right"}

\* the final `else: raise ValueError(...)` of _init_spins (neutral variant)
\* and of induce_local_crash
InvalidRegion(region) == region # "random" /\ ~IsQuadrant(region)

\* the exception __init__ raises, or "none"
ConstructionError(v, h, gw, f, region, pf) ==
    IF v = "object" THEN "none"
    ELSE IF ShapeRaises(h, gw \div 2) THEN "ValueError"
    ELSE IF v = "neutral"
    THEN IF InvalidRegion(region) THEN "ValueError"
         ELSE IF ChoiceRaises(Cardinality(RegionIndices(region, h, gw)),
                              NumNeutralPlaced(region, f, h, gw))
         THEN "ValueError"
         ELSE IF SliceRaises(gw) THEN "ValueError"
         ELSE "none"
    ELSE IF v = "advantage"
    THEN IF ChoiceRaises(h * (gw \div 2), IntOfProduct(pf, h * (gw \div 2)))
         THEN "ValueError"
         ELSE "none"
    ELSE "none"

\* object-per-cell variant: the list _init_traders builds for one colour;
\* range() of a negative number is empty
InitTraders(h, wc, up, draws, offset, is_black) ==
    [k \in 1 .. (IF h > 0 /\ wc > 0 THEN h * wc ELSE 0) |->
        [row |-> (k - 1) \div wc,
         col |-> (k - 1) % wc,
         spin |-> IF FracLess(draws[<<(k - 1) \div wc, offset + ((k - 1) % wc)>>], up)
                  THEN -1 ELSE 1,
         is_black |-> is_black]]

\* the sets np.random.choice may return for the neutral cells
NeutralChoices ==
    IF variant = "neutral"
       /\ ConstructionError(variant, grid_height, grid_width, fraction_neutral,
                            region_neutral, privileged_fraction) = "none"
    THEN Choices(RegionIndices(region_neutral, grid_height, grid_width),
                 NumNeutralPlaced(region_neutral, fraction_neutral, grid_height,
                                  grid_width))
    ELSE {{}}

\* the sets np.random.choice may return for the privileged cells of one colour
PrivilegedChoices ==
    IF variant = "advantage"
       /\ ConstructionError(variant, grid_height, grid_width, fraction_neutral,
                            region_neutral, privileged_fraction) = "none"
    THEN Choices(Cells(grid_height, color_width),
                 IntOfProduct(privileged_fraction, grid_height * color_width))
    ELSE {{}}

\* __init__ of every variant, with the draws of random() and the choices of
\* np.random.choice as inputs
Construct(draws, neutral, indices_black, indices_white) ==
    /\ pc = "new"
    /\ IF ConstructionError(variant, grid_height, grid_width, fraction_neutral,
                            region_neutral, privileged_fraction) # "none"
       THEN /\ error' = ConstructionError(variant, grid_height, grid_width,
                                          fraction_neutral, region_neutral,
                                          privileged_fraction)
            /\ pc' = "failed"
            /\ UNCHANGED <<black, white, neutral_cells, black_privileged,
                           white_privileged, privileged_chosen>>
       ELSE /\ error' = "none"
            /\ pc' = "idle"
            /\ IF variant = "neutral"
               THEN LET fg == FullGrid(grid_height, grid_width, init_up, neutral, draws)
                    IN /\ black' = ColumnSlice(fg, grid_height, color_width, 0)
                       /\ white' = ColumnSlice(fg, grid_height, color_width, 1)
               ELSE IF variant = "object"
               THEN /\ black' = InitTraders(grid_height, color_width, init_up, draws,
                                            0, TRUE)
                    /\ white' = InitTraders(grid_height, color_width, init_up, draws,
                                            color_width, FALSE)
               ELSE /\ black' = InitSpinsArray(grid_height, color_width, init_up,
                                               draws, 0)
                    /\ white' = InitSpinsArray(grid_height, color_width, init_up,
                                               draws, color_width)
            /\ neutral_cells' = neutral
            /\ IF variant = "advantage"
               THEN /\ black_privileged' = Mask(grid_height, color_width, indices_black)
                    /\ white_privileged' = Mask(grid_height, color_width, indices_white)
                    /\ privileged_chosen' = <<black_privileged', white_privileged'>>
               ELSE UNCHANGED <<black_privileged, white_privileged, privileged_chosen>>
    /\ UNCHANGED <<variant, grid_height, grid_width, init_up, fraction_neutral,
                   region_neutral, privileged_fraction, privileged_flip_factor,
                   row, col, locals, entry_sum, resampled, ret, reads, neighbour_sum,
                   grid, base_prob, prob, draw, shock, schedule>>

\* the arguments of a constructor call that has not run yet
NewObject(v, h, gw, up) ==
    /\ variant = v
    /\ grid_height = h
    /\ grid_width = gw
    /\ init_up = up
    /\ IF v = "neutral"
       THEN /\ fraction_neutral \in BuildFractions
            /\ region_neutral \in CrashRegions
       ELSE /\ fraction_neutral = <<0, 1>>
            /\ region_neutral = "random"
    /\ IF v = "advantage"
       THEN /\ privileged_fraction \in BuildFractions
            /\ privileged_flip_factor \in SweepFactors
       ELSE /\ privileged_fraction = <<0, 1>>
            /\ privileged_flip_factor = <<1, 1>>
    /\ neutral_cells = {}
    /\ black = <<>>
    /\ white = <<>>
    /\ black_privileged = <<>>
    /\ white_privileged = <<>>
    /\ privileged_chosen = <<>>
    /\ init_draws = <<>>
    /\ full_grid = <<>>
    /\ pc = "new"
    /\ NoCalls

\* mutant: black fills the odd columns and white the even ones
reconstruct_grid_swapped(b, w, rows, cols_half) ==
    [ij \in Cells(rows, cols_half * 2) |->
        IF ij[2] % 2 = 0
        THEN w[<<ij[1], ij[2] \div 2>>]
        ELSE b[<<ij[1], ij[2] \div 2>>]]

\* utils.reconstruct_grid(black, white), black of shape (rows, cols_half)
reconstruct_grid(b, w, rows, cols_half) ==
    [ij \in Cells(rows, cols_half * 2) |->
        IF ij[2] % 2 = 0
        THEN b[<<ij[1], ij[2] \div 2>>]
        ELSE w[<<ij[1], ij[2] \div 2>>]]

----------------------------------------------------------------------------
(* Probability table: precompute_probabilities *)

\* Entry [spin_idx][sum_idx] is the field of that entry times mc[2]
\* (mc = market_coupling as <<num, den>>); its probability is
\* 1 / (1 + exp(field)).
PrecomputeProbabilities(v, coupling, mc) ==
    IF v = "neutral"
    THEN [spin_idx \in 0 .. 2 |-> [c \in 0 .. 8 |->
            LET spin_val == IF spin_idx = 2 THEN -1 ELSE spin_idx
                nsum == -4 + c
            IN coupling * nsum * mc[2] - mc[1] * spin_val]]
    ELSE [r \in 0 .. 1 |-> [c \in 0 .. 4 |->
            LET spin == IF r # 0 THEN 1 ELSE -1
                nsum == -4 + 2 * c
            IN coupling * nsum * mc[2] - mc[1] * spin]]

\* spin_idx of _update_strategies
SpinIdx(v, current_spin) ==
    IF v = "neutral"
    THEN (IF current_spin = -1 THEN 2 ELSE current_spin)
    ELSE IF v = "advantage"
    THEN (IF current_spin = 1 THEN 1 ELSE 0)
    ELSE TruncDiv(current_spin + 1, 2)

\* mutant: the sum is shifted but not halved in the variants without neutrals
SumIdxNotHalved(v, nsum) == nsum + 4

\* sum_idx of _update_strategies
SumIdx(v, nsum) ==
    IF v = "neutral" THEN nsum + 4 ELSE TruncDiv(nsum + 4, 2)

\* probabilities[spin_idx][sum_idx] raises IndexError
LookupRaises(table, spin_idx, sum_idx) ==
    LET i == NpIndex(spin_idx, Cardinality(DOMAIN table))
    IN \/ i = IndexError
       \/ NpIndex(sum_idx, Cardinality(DOMAIN table[i])) = IndexError

Lookup(table, spin_idx, sum_idx) ==
    LET i == NpIndex(spin_idx, Cardinality(DOMAIN table))
    IN table[i][NpIndex(sum_idx, Cardinality(DOMAIN table[i]))]

\* mutant: the test for a neutral cell is missing
SkipsCellNever(v, current_spin) == FALSE

\* `if current_spin == 0: continue` of the neutral variant
SkipsCell(v, current_spin) == v = "neutral" /\ current_spin = 0

\* `random() < probabilities[spin_idx][sum_idx]` with the draw as its logit
DrawBelow(theta, field) == field < theta

\* `random() < min(base_prob * privileged_flip_factor, 1.0)` of a privileged
\* cell, with the draw u as its logit theta and base_prob as its field, both
\* scaled by n.  For the factor 1 it is DrawBelow.  For the factor 2 the
\* product reaches 1.0 when field <= 0, and below that u < 2 p is
\* field / n < ln(1 + 2 exp(theta / n)); for the three draws of Thetas that
\* bound is just above 0, is ln 3 (n ln 3 lies strictly between n and n + 1
\* for n <= 10), and is above every field.
PrivilegedDrawBelow(theta, field, n, factor) ==
    IF factor = <<1, 1>>
    THEN field < theta
    ELSE \/ field <= 0
         \/ (theta = 0 /\ field <= n)
         \/ theta >= 1000

\* mutant: a cell whose draw fails becomes neutral
NewSpinOrZero(below) == IF below THEN 1 ELSE 0

\* `if random() < prob: source[row, col] = +1 else: source[row, col] = -1`
NewSpin(below) == IF below THEN 1 ELSE -1

----------------------------------------------------------------------------
(* update and _update_strategies *)

\* mutant: one sublattice is counted instead of two
NumberOfTradersOneColour(b) == Cardinality(DOMAIN b)

\* number_of_traders of update
NumberOfTraders(b) == 2 * Cardinality(DOMAIN b)

Source == IF pc = "black" THEN black ELSE white

CheckerboardAgents == IF pc = "black" THEN white ELSE black

\* privileged_mask of _update_subgrid
PrivilegedMask == IF pc = "black" THEN black_privileged ELSE white_privileged

\* update, up to the first call of _update_strategies
Update(coupling, alpha, excluding) ==
    /\ pc = "idle"
    /\ excluding => variant = "neutral"
    /\ reduced_neighbour_coupling' = coupling
    /\ reduced_alpha' = alpha
    /\ excluding_neutrals' = excluding
    /\ number_of_traders' = NumberOfTraders(black)
    /\ global_market' = LatticeSum(black, white)
    /\ market_coupling' = <<alpha * Abs(global_market'), number_of_traders'>>
    /\ probabilities' = PrecomputeProbabilities(variant, coupling, market_coupling')
    /\ entry_sum' = LatticeSum(black, white)
    /\ resampled' = [c \in {"black", "white"} |->
                        [rc \in Cells(grid_height, color_width) |-> 0]]
    /\ pc' = "black"
    /\ row' = 0
    /\ col' = 0
    /\ ret' = <<>>
    /\ error' = "none"
    /\ UNCHANGED <<config, past, shock, black, white, reads, neighbour_sum>>

\* mutant: the loop over the rows stops after its first row
AdvanceFirstRowOnly ==
    IF col + 1 < color_width
    THEN /\ col' = col + 1
         /\ UNCHANGED <<row, pc>>
    ELSE /\ row' = 0
         /\ col' = 0
         /\ pc' = IF pc = "black" THEN "white" ELSE "return"

\* the loop `for row ... for col ...` moves on; after the last cell of black
\* update calls _update_strategies for white, after the last cell of white
\* it reaches its return statement
Advance ==
    IF col + 1 < color_width
    THEN /\ col' = col + 1
         /\ UNCHANGED <<row, pc>>
    ELSE IF row + 1 < grid_height
    THEN /\ row' = row + 1
         /\ col' = 0
         /\ UNCHANGED pc
    ELSE /\ row' = 0
         /\ col' = 0
         /\ pc' = IF pc = "black" THEN "white" ELSE "return"

Store(value) ==
    IF pc = "black"
    THEN /\ black' = [black EXCEPT ![<<row, col>>] = value]
         /\ UNCHANGED white
    ELSE /\ white' = [white EXCEPT ![<<row, col>>] = value]
         /\ UNCHANGED black

Raise(exception) ==
    /\ error' = exception
    /\ pc' = "idle"
    /\ row' = 0
    /\ col' = 0

\* one iteration of the loop body of _update_strategies, at (row, col)
UpdateStrategiesCell(theta) ==
    /\ pc \in {"black", "white"}
    /\ LET current_spin == Source[<<row, col>>]
           rd == NeighbourReads(variant, pc = "black", grid_height, color_width, row, col)
           nsum == ComputeNeighbourSum(variant, pc = "black", CheckerboardAgents,
                                       grid_height, color_width, row, col)
           spin_idx == SpinIdx(variant, current_spin)
           sum_idx == SumIdx(variant, nsum)
       IN IF SkipsCell(variant, current_spin)
          THEN /\ Advance
               /\ UNCHANGED <<black, white, resampled, error, reads>>
          ELSE IF ReadsRaise(rd)
          THEN /\ Raise("IndexError")
               /\ reads' = rd
               /\ UNCHANGED <<black, white, resampled>>
          ELSE IF LookupRaises(probabilities, spin_idx, sum_idx)
          THEN /\ Raise("IndexError")
               /\ reads' = rd
               /\ UNCHANGED <<black, white, resampled>>
          ELSE /\ Store(NewSpin(
                    IF variant = "advantage" /\ PrivilegedMask[<<row, col>>]
                    THEN PrivilegedDrawBelow(theta,
                                             Lookup(probabilities, spin_idx, sum_idx),
                                             number_of_traders, privileged_flip_factor)
                    ELSE DrawBelow(theta, Lookup(probabilities, spin_idx, sum_idx))))
               /\ resampled' = [resampled EXCEPT ![pc][<<row, col>>] = @ + 1]
               /\ reads' = rd
               /\ Advance
               /\ UNCHANGED error
    /\ UNCHANGED <<config, past, schedule, shock, locals, entry_sum, ret, neighbour_sum>>

\* number_of_neutrals of update
NumberOfNeutrals(region, f, h, gw) ==
    IF region = "random"
    THEN IntOfProduct(f, h * gw)
    ELSE TruncDiv(f[1] * (h * gw), f[2] * 4)

\* mutant: the magnetisation is recomputed from the lattice after the sweep
ReturnValueAfterSweep ==
    IF ~excluding_neutrals
    THEN <<LatticeSum(black, white), number_of_traders>>
    ELSE <<LatticeSum(black, white),
           number_of_traders - NumberOfNeutrals(region_neutral, fraction_neutral,
                                                grid_height, grid_width)>>

\* the value update returns, as <<numerator, denominator>>
ReturnValue ==
    IF ~excluding_neutrals
    THEN <<global_market, number_of_traders>>
    ELSE <<global_market,
           number_of_traders - NumberOfNeutrals(region_neutral, fraction_neutral,
                                                grid_height, grid_width)>>

\* the return statement of update
Return ==
    /\ pc = "return"
    /\ ret' = ReturnValue
    /\ pc' = "idle"
    /\ UNCHANGED <<config, past, schedule, shock, black, white, row, col, locals, entry_sum,
                   resampled, error, reads, neighbour_sum>>

----------------------------------------------------------------------------
(* Crash operator: induce_local_crash (crash variant) *)

\* mutant: the halves are rounded up
CrashQuadrantCeil(region, rows, cols) ==
    LET half_rows == (rows + 1) \div 2
        half_cols == (cols + 1) \div 2
    IN CASE region = "top_left" -> (0 .. half_rows - 1) \X (0 .. half_cols - 1)
         [] region = "top_right" -> (0 .. half_rows - 1) \X (half_cols .. cols - 1)
         [] region = "bottom_left" -> (half_rows .. rows - 1) \X (0 .. half_cols - 1)
         [] region = "bottom_right" -> (half_rows .. rows - 1) \X (half_cols .. cols - 1)
         [] OTHER -> {}

\* the cells of one sublattice of shape (rows, cols) that a quadrant covers
CrashQuadrant(region, rows, cols) ==
    LET half_rows == rows \div 2
        half_cols == cols \div 2
    IN CASE region = "top_left" -> (0 .. half_rows - 1) \X (0 .. half_cols - 1)
         [] region = "top_right" -> (0 .. half_rows - 1) \X (half_cols .. cols - 1)
         [] region = "bottom_left" -> (half_rows .. rows - 1) \X (0 .. half_cols - 1)
         [] region = "bottom_right" -> (half_rows .. rows - 1) \X (half_cols .. cols - 1)
         [] OTHER -> {}

\* mutant: the chosen cells are flipped instead of set to -1
ForceDownFlip(arr, cells) == [rc \in DOMAIN arr |-> IF rc \in cells THEN -arr[rc] ELSE arr[rc]]

ForceDown(arr, cells) == [rc \in DOMAIN arr |-> IF rc \in cells THEN -1 ELSE arr[rc]]

InduceLocalCrash(fraction, region) ==
    /\ pc = "idle"
    /\ variant = "krach"
    /\ LET nb_agents_black == grid_height * color_width
           nb_change_black == IntOfProduct(fraction, nb_agents_black)
           nb_agents_white == grid_height * color_width
           nb_change_white == IntOfProduct(fraction, nb_agents_white)
       IN IF region = "random"
          THEN /\ \E indices_b \in Choices(Cells(grid_height, color_width), nb_change_black) :
                    black' = ForceDown(black, indices_b)
               /\ \E indices_w \in Choices(Cells(grid_height, color_width), nb_change_white) :
                    white' = ForceDown(white, indices_w)
               /\ error' = "none"
          ELSE IF IsQuadrant(region)
          THEN /\ black' = ForceDown(black, CrashQuadrant(region, grid_height, color_width))
               /\ white' = ForceDown(white, CrashQuadrant(region, grid_height, color_width))
               /\ error' = "none"
          ELSE /\ error' = "ValueError"
               /\ UNCHANGED <<black, white>>
    /\ ret' = <<>>
    /\ UNCHANGED <<config, past, schedule, pc, row, col, locals, entry_sum, resampled, reads,
                   neighbour_sum>>

----------------------------------------------------------------------------
(* The lattice in use: construction, then update and crash calls *)

CallUpdate ==
    \E c \in Couplings : \E excluding \in BOOLEAN :
        Update(c[1], c[2], excluding) /\ UNCHANGED schedule

StepCell == \E theta \in Thetas : UpdateStrategiesCell(theta)

CallCrash ==
    \E fraction \in Fractions : \E region \in CrashRegions :
        InduceLocalCrash(fraction, region) /\ UNCHANGED shock

Next == CallUpdate \/ StepCell \/ Return \/ CallCrash

Spec == Init /\ [][Next]_vars

----------------------------------------------------------------------------
(* The neighbour sum as a pure function: every sublattice shape, colour    *)
(* and cell                                                                *)

TopoDims == (1 .. TopoMaxH) \X (1 .. TopoMaxWc)

\* a lattice as constructed with init_up = 0 or 1 and no neutral cell
InitTopo ==
    /\ variant \in Variants
    /\ \E d \in TopoDims :
         /\ grid_height = d[1]
         /\ grid_width = 2 * d[2]
    /\ init_up \in {<<0, 1>>, <<1, 1>>}
    /\ fraction_neutral = <<0, 1>>
    /\ region_neutral = "random"
    /\ neutral_cells = {}
    /\ LET draws == [ij \in Cells(grid_height, grid_width) |-> <<1, 4>>]
       IN IF variant = "neutral"
          THEN LET fg == FullGrid(grid_height, grid_width, init_up, {}, draws)
               IN /\ black = ColumnSlice(fg, grid_height, color_width, 0)
                  /\ white = ColumnSlice(fg, grid_height, color_width, 1)
          ELSE /\ black = InitSpinsArray(grid_height, color_width, init_up, draws, 0)
               /\ white = InitSpinsArray(grid_height, color_width, init_up, draws,
                                         color_width)
    /\ NoPrivileged
    /\ init_draws = <<>>
    /\ full_grid = <<>>
    /\ pc = "idle"
    /\ NoCalls

\* one call _compute_neighbour_sum(is_black, source, r, c)
CallComputeNeighbourSum(is_black, r, c) ==
    LET source == IF is_black THEN white ELSE black
        rd == NeighbourReads(variant, is_black, grid_height, color_width, r, c)
    IN /\ pc' = IF is_black THEN "black" ELSE "white"
       /\ row' = r
       /\ col' = c
       /\ reads' = rd
       /\ IF ReadsRaise(rd)
          THEN /\ error' = "IndexError"
               /\ UNCHANGED neighbour_sum
          ELSE /\ error' = "none"
               /\ neighbour_sum' = ComputeNeighbourSum(variant, is_black, source,
                                                       grid_height, color_width, r, c)
       /\ UNCHANGED <<config, past, schedule, shock, black, white, locals, entry_sum, resampled,
                      ret>>

NextTopo ==
    \E is_black \in BOOLEAN : \E rc \in Cells(grid_height, color_width) :
        CallComputeNeighbourSum(is_black, rc[1], rc[2])

SpecTopo == InitTopo /\ [][NextTopo]_vars

----------------------------------------------------------------------------
(* Constructor calls with every kind of argument, then reconstruct_grid *)

BuildShapes == {<<d[1], 2 * d[2]>> : d \in Dims} \cup InvalidShapes

InitBuild ==
    \E v \in AllVariants : \E shape \in BuildShapes : \E up \in BuildInitUps :
        NewObject(v, shape[1], shape[2], up)

\* __init__, keeping the draws and the full grid of _init_spins
ConstructRecorded ==
    \E neutral \in NeutralChoices :
      \E indices_black \in PrivilegedChoices : \E indices_white \in PrivilegedChoices :
        \E draws \in [Cells(grid_height, grid_width) -> InitDraws] :
          /\ Construct(draws, neutral, indices_black, indices_white)
          /\ init_draws' = IF error' = "none" THEN draws ELSE <<>>
          /\ full_grid' = IF error' = "none" /\ variant = "neutral"
                          THEN FullGrid(grid_height, grid_width, init_up, neutral, draws)
                          ELSE <<>>

\* one call reconstruct_grid(self.black, self.white) on an array variant
CallReconstructGrid ==
    /\ pc = "idle"
    /\ variant # "object"
    /\ grid' = reconstruct_grid(black, white, grid_height, color_width)
    /\ UNCHANGED <<config, black, white, pc, row, col, locals, entry_sum, resampled,
                   ret, error, reads, neighbour_sum, init_draws, full_grid,
                   base_prob, prob, draw, shock, schedule>>

NextBuild == ConstructRecorded \/ CallReconstructGrid

SpecBuild == InitBuild /\ [][NextBuild]_vars

----------------------------------------------------------------------------
(* Crash calls on a lattice, each with the lattice it found *)

InitCrash ==
    \/ \E v \in {"krach", "neutral"} : \E d \in Dims : \E up \in BuildInitUps :
         NewObject(v, d[1], 2 * d[2], up)
    \/ NewObject("krach", ScenarioShape[1], ScenarioShape[2], <<0, 1>>)

ConstructPlain ==
    \E neutral \in NeutralChoices :
      \E draws \in [Cells(grid_height, grid_width) -> InitDraws] :
        /\ Construct(draws, neutral, {}, {})
        /\ UNCHANGED <<init_draws, full_grid>>

\* induce_local_crash; the random region is explored on the small shapes
RecordedCrash ==
    \E fraction \in Fractions : \E region \in CrashRegions :
        /\ region = "random" => <<grid_height, color_width>> \in Dims
        /\ InduceLocalCrash(fraction, region)
        /\ before' = <<black, white>>
        /\ call' = <<fraction, region>>

NextCrash == ConstructPlain \/ RecordedCrash

SpecCrash == InitCrash /\ [][NextCrash]_vars

----------------------------------------------------------------------------
(* Sweeps of the privileged variant, beside the neutral one *)

InitAdvantage ==
    \E v \in {"neutral", "advantage"} : \E d \in Dims : Constructed(v, d[1], d[2])

NextAdvantage == CallUpdate \/ StepCell \/ Return

SpecAdvantage == InitAdvantage /\ [][NextAdvantage]_vars

----------------------------------------------------------------------------
(* One draw of _update_subgrid as a pure function of base_prob, the mask,  *)
(* the factor and the value of random()                                    *)

FracMul(a, b) == <<a[1] * b[1], a[2] * b[2]>>

\* min(a, b) of Python: a unless b is smaller
FracMin(a, b) == IF FracLess(b, a) THEN b ELSE a

\* mutant: the product is not capped
AppliedProbabilityUncapped(p, is_privileged, factor) ==
    IF is_privileged THEN FracMul(p, factor) ELSE p

\* prob of _update_subgrid
AppliedProbability(p, is_privileged, factor) ==
    IF is_privileged THEN FracMin(FracMul(p, factor), <<1, 1>>) ELSE p

\* the black cell (0, 0) of a 1 x 2 lattice, base_prob just looked up
InitDraw ==
    /\ variant = "advantage"
    /\ grid_height = 1
    /\ grid_width = 2
    /\ init_up = <<1, 2>>
    /\ fraction_neutral = <<0, 1>>
    /\ region_neutral = "random"
    /\ neutral_cells = {}
    /\ privileged_fraction \in {<<0, 1>>, <<1, 1>>}
    /\ privileged_flip_factor \in PrivFactors
    /\ black \in [Cells(1, 1) -> {-1, 1}]
    /\ white \in [Cells(1, 1) -> {-1, 1}]
    /\ black_privileged = Mask(1, 1, Cells(IntOfProduct(privileged_fraction, 1), 1))
    /\ white_privileged = Mask(1, 1, Cells(IntOfProduct(privileged_fraction, 1), 1))
    /\ privileged_chosen = <<black_privileged, white_privileged>>
    /\ init_draws = <<>>
    /\ full_grid = <<>>
    /\ pc = "decide"
    /\ row = 0
    /\ col = 0
    /\ NoLocals
    /\ entry_sum = 0
    /\ resampled = <<>>
    /\ ret = <<>>
    /\ error = "none"
    /\ reads = <<>>
    /\ neighbour_sum = 0
    /\ grid = <<>>
    /\ before = <<>>
    /\ call = <<>>
    /\ base_prob \in ProbGrid
    /\ prob = <<>>
    /\ draw = <<>>
    /\ pending = {}
    /\ phase_draws = <<>>
    /\ phase_start = <<>>

\* the privileged test, the cap and the decision of _update_subgrid
DecideFlip(u) ==
    /\ pc = "decide"
    /\ prob' = AppliedProbability(base_prob, black_privileged[<<row, col>>],
                                  privileged_flip_factor)
    /\ draw' = u
    /\ black' = [black EXCEPT ![<<row, col>>] = NewSpin(FracLess(u, prob'))]
    /\ pc' = "decided"
    /\ UNCHANGED <<config, white, row, col, locals, entry_sum, resampled, ret, error,
                   reads, neighbour_sum, init_draws, full_grid, grid, base_prob,
                   shock, schedule>>

NextDraw == \E u \in UniformDraws : DecideFlip(u)

SpecDraw == InitDraw /\ [][NextDraw]_vars

----------------------------------------------------------------------------
(* Object-per-cell variant: _compute_neighbour_sum on the lists of Trader *)

\* idx(r, c) of _compute_neighbour_sum, w the local grid_width
idx(w, r, c) == r * w + c

\* the four list subscripts all_traders[.] of the sum, in the order of the
\* code (up, down, self-aligned, horizontal), resolved as Python resolves a
\* list index: 0-based positions, or IndexError
TraderReads(is_black, all_traders, h, r, c) ==
    LET w == Len(all_traders) \div h
        sub == NeighbourSubscripts("object", is_black, h, w, r, c)
    IN [k \in 1 .. 4 |-> NpIndex(idx(w, sub[k][1], sub[k][2]), Len(all_traders))]

\* spin_up + spin_down + spin_self + spin_horiz
TraderNeighbourSum(is_black, all_traders, h, r, c) ==
    LET rd == TraderReads(is_black, all_traders, h, r, c)
    IN all_traders[rd[1] + 1].spin + all_traders[rd[2] + 1].spin
       + all_traders[rd[3] + 1].spin + all_traders[rd[4] + 1].spin

\* one call _compute_neighbour_sum(trader, other_subgrid, is_black) for the
\* k-th trader of the list being updated; reads keeps the (row, col) of the
\* four traders read
CallTraderNeighbourSum(is_black, k) ==
    LET subgrid == IF is_black THEN black ELSE white
        all_traders == IF is_black THEN white ELSE black
        trader == subgrid[k]
        rd == TraderReads(is_black, all_traders, grid_height, trader.row, trader.col)
    IN /\ pc \in {"idle", "black", "white"}
       /\ variant = "object"
       /\ pc' = IF is_black THEN "black" ELSE "white"
       /\ row' = trader.row
       /\ col' = trader.col
       /\ IF \E j \in 1 .. 4 : rd[j] = IndexError
          THEN /\ error' = "IndexError"
               /\ reads' = rd
               /\ UNCHANGED neighbour_sum
          ELSE /\ error' = "none"
               /\ reads' = [j \in 1 .. 4 |-> <<all_traders[rd[j] + 1].row,
                                                all_traders[rd[j] + 1].col>>]
               /\ neighbour_sum' = TraderNeighbourSum(is_black, all_traders, grid_height,
                                                      trader.row, trader.col)
       /\ UNCHANGED <<config, past, schedule, shock, black, white, locals, entry_sum, resampled,
                      ret>>

InitObject ==
    \E d \in Dims : \E up \in BuildInitUps : NewObject("object", d[1], 2 * d[2], up)

NextObject ==
    \/ ConstructPlain
    \/ \E is_black \in BOOLEAN : \E k \in 1 .. Len(black) :
         CallTraderNeighbourSum(is_black, k)

SpecObject == InitObject /\ [][NextObject]_vars

----------------------------------------------------------------------------
(* One phase of _update_strategies, its cells evaluated in any order *)

\* mutant: the neighbour sum is read from the sublattice being updated
CellOutcomeOwnSublattice(v, is_black, source, checkerboard_agents, table, h, w, r, c, theta) ==
    LET current_spin == source[<<r, c>>]
        nsum == ComputeNeighbourSum(v, is_black, source, h, w, r, c)
    IN IF SkipsCell(v, current_spin)
       THEN current_spin
       ELSE NewSpin(DrawBelow(theta, Lookup(table, SpinIdx(v, current_spin),
                                            SumIdx(v, nsum))))

\* the value the loop body of _update_strategies leaves in source[r, c]:
\* it reads source[r, c], the four cells of checkerboard_agents, the table
\* and one draw
CellOutcome(v, is_black, source, checkerboard_agents, table, h, w, r, c, theta) ==
    LET current_spin == source[<<r, c>>]
        nsum == ComputeNeighbourSum(v, is_black, checkerboard_agents, h, w, r, c)
    IN IF SkipsCell(v, current_spin)
       THEN current_spin
       ELSE NewSpin(DrawBelow(theta, Lookup(table, SpinIdx(v, current_spin),
                                            SumIdx(v, nsum))))

\* the loop `for row ... for col ...` of _update_strategies from its k-th
\* cell on, every cell taking the draw `draws` holds for it
RECURSIVE RowMajorPhase(_, _, _)
RowMajorPhase(source, draws, k) ==
    IF k >= grid_height * color_width
    THEN source
    ELSE LET r == k \div color_width
             c == k % color_width
         IN RowMajorPhase(
                [source EXCEPT ![<<r, c>>] =
                    CellOutcome(variant, pc = "black", source, CheckerboardAgents,
                                probabilities, grid_height, color_width, r, c,
                                draws[<<r, c>>])],
                draws, k + 1)

\* update, up to the first loop of _update_strategies; the draws of the
\* phase are fixed per cell
BeginSweep(coupling, alpha, draws) ==
    /\ ret = <<>>
    /\ Update(coupling, alpha, FALSE)
    /\ pending' = Cells(grid_height, color_width)
    /\ phase_draws' = draws
    /\ phase_start' = black

\* the loop body of _update_strategies at one cell still to be evaluated
EvaluateCell(rc) ==
    /\ pc \in {"black", "white"}
    /\ rc \in pending
    /\ LET value == CellOutcome(variant, pc = "black", Source, CheckerboardAgents,
                                probabilities, grid_height, color_width,
                                rc[1], rc[2], phase_draws[rc])
       IN IF pc = "black"
          THEN /\ black' = [black EXCEPT ![rc] = value]
               /\ UNCHANGED white
          ELSE /\ white' = [white EXCEPT ![rc] = value]
               /\ UNCHANGED black
    /\ pending' = pending \ {rc}
    /\ UNCHANGED <<config, past, shock, phase_draws, phase_start, pc, row, col, locals,
                   entry_sum, resampled, ret, error, reads, neighbour_sum>>

\* _update_strategies returns once every cell was evaluated: update calls it
\* for white, or reaches its return statement
EndPhase(draws) ==
    /\ pc \in {"black", "white"}
    /\ pending = {}
    /\ IF pc = "black"
       THEN /\ pc' = "white"
            /\ pending' = Cells(grid_height, color_width)
            /\ phase_draws' = draws
            /\ phase_start' = white
       ELSE /\ pc' = "return"
            /\ UNCHANGED schedule
    /\ UNCHANGED <<config, past, shock, black, white, row, col, locals, entry_sum,
                   resampled, ret, error, reads, neighbour_sum>>

\* draws that let the table decide (0) or that flip up whatever it holds
PhaseThetas == {0, 1000}

PhaseDraws == [Cells(grid_height, color_width) -> PhaseThetas]

\* a coupling under which the table depends on the neighbour sum
PhaseCouplings == {<<1, 2>>}

CallBeginSweep ==
    \E c \in PhaseCouplings : \E draws \in PhaseDraws : BeginSweep(c[1], c[2], draws)

CallEvaluateCell == \E rc \in pending : EvaluateCell(rc)

CallEndPhase == \E draws \in PhaseDraws : EndPhase(draws)

NextPhase == CallBeginSweep \/ CallEvaluateCell \/ CallEndPhase \/ Return

SpecPhase == Init /\ [][NextPhase]_vars

----------------------------------------------------------------------------
(* Properties of the sweep *)

\* the full-grid cell stored at cell rc of a sublattice
FullGridCell(colour, rc) == <<rc[1], 2 * rc[2] + (IF colour = "black" THEN 0 ELSE 1)>>

MadeNeutral(colour, rc) == FullGridCell(colour, rc) \in neutral_cells

SweepDone == pc = "idle" /\ ret # <<>>

\* C1: in the neutral variant, in every state reached by update calls, the
\* cells made neutral (0) at construction are still 0 and every other cell
\* is -1 or +1.
C1_NeutralCellsFixed ==
    variant = "neutral" =>
        \A rc \in Cells(grid_height, color_width) :
            /\ MadeNeutral("black", rc) => black[rc] = 0
            /\ ~MadeNeutral("black", rc) => black[rc] \in {-1, 1}
            /\ MadeNeutral("white", rc) => white[rc] = 0
            /\ ~MadeNeutral("white", rc) => white[rc] \in {-1, 1}

\* a sweep has run over a lattice holding neutral and non-neutral cells of
\* both signs
C1_Witness ==
    /\ variant = "neutral"
    /\ SweepDone
    /\ \E rc \in Cells(grid_height, color_width) : MadeNeutral("white", rc)
    /\ \E a, b \in Cells(grid_height, color_width) :
         /\ resampled["black"][a] = 1 /\ black[a] = -1
         /\ resampled["black"][b] = 1 /\ black[b] = 1

\* rc comes before (r, c) in the row-major order of the loops
Before(rc, r, c) == rc[1] < r \/ (rc[1] = r /\ rc[2] < c)

Once(colour, rc) == IF MadeNeutral(colour, rc) THEN 0 ELSE 1

C2_Order ==
    /\ pc = "black" =>
         \A rc \in Cells(grid_height, color_width) :
            /\ resampled["white"][rc] = 0
            /\ resampled["black"][rc] =
                 IF Before(rc, row, col) THEN Once("black", rc) ELSE 0
    /\ pc = "white" =>
         \A rc \in Cells(grid_height, color_width) :
            /\ resampled["black"][rc] = Once("black", rc)
            /\ resampled["white"][rc] =
                 IF Before(rc, row, col) THEN Once("white", rc) ELSE 0
    /\ (pc = "return" \/ SweepDone) =>
         \A rc \in Cells(grid_height, color_width) :
            /\ resampled["black"][rc] = Once("black", rc)
            /\ resampled["white"][rc] = Once("white", rc)

C2_Frame ==
    /\ pc = "black" =>
         /\ white' = white
         /\ \A rc \in Cells(grid_height, color_width) :
              rc # <<row, col>> => black'[rc] = black[rc]
    /\ pc = "white" =>
         /\ black' = black
         /\ \A rc \in Cells(grid_height, color_width) :
              rc # <<row, col>> => white'[rc] = white[rc]
    /\ (pc = "return" \/ (pc = "idle" /\ pc' = "black")) =>
         black' = black /\ white' = white
    /\ pc' = "white" => pc \in {"black", "white"}
    /\ pc' = "black" => pc \in {"idle", "black"}

\* C2: every update call runs two phases in this order: every cell of black
\* is resampled while white keeps its values of before the sweep, then every
\* cell of white is resampled while black keeps its values of after the first
\* phase; no white cell is drawn before the last black cell, and when the
\* call returns every non-neutral cell has been drawn exactly once.
C2_TwoPhases == []C2_Order /\ [][C2_Frame]_vars

\* the second phase is under way on a lattice of more than one row and the
\* first phase has drawn every cell of black once
C2_Witness ==
    /\ pc = "white"
    /\ grid_height > 1
    /\ row = grid_height - 1
    /\ \A rc \in Cells(grid_height, color_width) : resampled["black"][rc] = 1
    /\ resampled["white"][<<0, 0>>] = 1

\* C3: within one update call the global sum is the one of the lattice when
\* the call was entered; the market coupling and the probability table stay
\* the ones derived from it through both phases, and the call returns that
\* sum over the number of agents (default mode).
C3_FieldFrozen ==
    /\ (pc \in {"black", "white", "return"} \/ SweepDone) =>
         /\ global_market = entry_sum
         /\ market_coupling = <<reduced_alpha * Abs(entry_sum),
                                grid_height * grid_width>>
         /\ probabilities = PrecomputeProbabilities(variant, reduced_neighbour_coupling,
                                                    market_coupling)
    /\ (SweepDone /\ ~excluding_neutrals) =>
         ret = <<entry_sum, grid_height * grid_width>>

\* a call has returned after a sweep that changed the absolute magnetisation
\* under a non-zero alpha
C3_Witness ==
    /\ SweepDone
    /\ ~excluding_neutrals
    /\ reduced_alpha # 0
    /\ Abs(LatticeSum(black, white)) # Abs(entry_sum)
    /\ ret[1] # LatticeSum(black, white)

----------------------------------------------------------------------------
(* Properties of the neighbour topology (SpecTopo) *)

Called == pc \in {"black", "white"}

\* C4 as stated: the horizontal neighbour is at column (col - 1) mod (W/2)
\* when (black is updated and row is even) or (white is updated and row is
\* odd), and at (col + 1) mod (W/2) otherwise.
C4_LeftOnBlackEven ==
    (Called /\ error = "none") =>
        reads[4] = <<row,
                     IF (pc = "black" /\ row % 2 = 0) \/ (pc = "white" /\ row % 2 = 1)
                     THEN (col - 1) % color_width
                     ELSE (col + 1) % color_width>>

\* C4 amended: the horizontal neighbour is at column (col - 1) mod (W/2)
\* when (black is updated and row is odd) or (white is updated and row is
\* even), and at (col + 1) mod (W/2) otherwise.
C4_LeftOnBlackOdd ==
    (Called /\ error = "none") =>
        reads[4] = <<row,
                     IF (pc = "black" /\ row % 2 = 1) \/ (pc = "white" /\ row % 2 = 0)
                     THEN (col - 1) % color_width
                     ELSE (col + 1) % color_width>>

\* a black cell of an odd row, in the first column of a sublattice wide
\* enough for left and right to differ: its horizontal neighbour is the last
\* column
C4_Witness ==
    /\ pc = "black"
    /\ row % 2 = 1
    /\ col = 0
    /\ color_width >= 3
    /\ reads[4] = <<row, color_width - 1>>

\* C5: in every variant, for every row and column of the sublattice, the
\* cells read are [(row - 1) mod H, col], [(row + 1) mod H, col] and
\* [row, col], the left column is (col - 1) mod (W/2), and no read falls
\* outside the sublattice.
C5_PeriodicReads ==
    Called =>
        /\ error = "none"
        /\ reads[1] = <<(row - 1) % grid_height, col>>
        /\ reads[2] = <<(row + 1) % grid_height, col>>
        /\ reads[3] = <<row, col>>
        /\ NpIndex(left_neighbor_col(variant, color_width, col), color_width)
             = (col - 1) % color_width
        /\ \A k \in 1 .. 4 : reads[k] \in Cells(grid_height, color_width)

\* the corner cell of a one-row, two-column grid in a variant that computes
\* row - 1 and col - 1 without a wrap
C5_Witness ==
    /\ variant = "base"
    /\ grid_height = 1
    /\ grid_width = 2
    /\ pc = "white"
    /\ upper_neighbor_row(variant, grid_height, row) = -1
    /\ left_neighbor_col(variant, color_width, col) = -1
    /\ reads[1] = <<0, 0>>
    /\ reads[4] = <<0, 0>>

----------------------------------------------------------------------------
(* Properties of the table lookup and of the returned value (Spec) *)

AllowedSums(v) == IF v = "neutral" THEN -4 .. 4 ELSE {-4, -2, 0, 2, 4}

TableRows(v) == IF v = "neutral" THEN 0 .. 2 ELSE 0 .. 1

TableCols(v) == IF v = "neutral" THEN 0 .. 8 ELSE 0 .. 4

\* C6: in every reachable state the neighbour sum of every cell is in
\* {-4,-2,0,2,4} (variants without neutrals) or in -4..4 (neutral variant),
\* the indices of every cell that is drawn lie inside the 2x5 or 3x9 table,
\* and no sweep raises.
C6_LookupInTable ==
    /\ error # "IndexError"
    /\ Called =>
         /\ DOMAIN probabilities = TableRows(variant)
         /\ \A i \in TableRows(variant) : DOMAIN probabilities[i] = TableCols(variant)
    /\ \A is_black \in BOOLEAN : \A rc \in Cells(grid_height, color_width) :
         LET own == IF is_black THEN black ELSE white
             other == IF is_black THEN white ELSE black
             rd == NeighbourReads(variant, is_black, grid_height, color_width,
                                  rc[1], rc[2])
             nsum == ComputeNeighbourSum(variant, is_black, other, grid_height,
                                         color_width, rc[1], rc[2])
         IN /\ ~ReadsRaise(rd)
            /\ nsum \in AllowedSums(variant)
            /\ ~SkipsCell(variant, own[rc]) =>
                 /\ SpinIdx(variant, own[rc]) \in TableRows(variant)
                 /\ SumIdx(variant, nsum) \in TableCols(variant)

\* the neutral variant is about to draw a -1 cell whose neighbour sum is odd
C6_Witness ==
    /\ variant = "neutral"
    /\ pc = "white"
    /\ white[<<row, col>>] = -1
    /\ ComputeNeighbourSum(variant, FALSE, black, grid_height, color_width, row, col) = 3
    /\ SpinIdx(variant, white[<<row, col>>]) = 2

\* C8: in default mode the value every update call returns, after any
\* sequence of sweeps and crashes, is a sum of absolute value at most
\* total_agents = H x W over total_agents.
C8_DefaultInRange ==
    /\ Abs(LatticeSum(black, white)) <= grid_height * grid_width
    /\ (SweepDone /\ ~excluding_neutrals) =>
         /\ ret[2] = grid_height * grid_width
         /\ ret[2] > 0
         /\ Abs(ret[1]) <= ret[2]

\* the crash variant returns -1: every cell was -1 when the sweep began
C8_Witness ==
    /\ variant = "krach"
    /\ SweepDone
    /\ grid_height * grid_width > 2
    /\ ret = <<-(grid_height * grid_width), grid_height * grid_width>>

\* C9 as stated: with exclude_neutrals, update returns the global sum over
\* total_agents minus the number of cells set to 0 at construction.
C9_ExactNeutralCount ==
    (SweepDone /\ excluding_neutrals) =>
        ret = <<entry_sum, grid_height * grid_width - Cardinality(neutral_cells)>>

\* C10 as stated: with exclude_neutrals and a non-zero denominator, the
\* value update returns lies in [-1, +1].
C10_ExcludingInRange ==
    (SweepDone /\ excluding_neutrals /\ ret[2] # 0) =>
        Abs(ret[1]) <= Abs(ret[2])

\* C11 as stated: with exclude_neutrals and as many neutral cells as agents
\* (denominator 0), update raises instead of returning a value; that is, no
\* call returns a quotient whose denominator is 0.
C11_ZeroDenominatorRaises ==
    ~(SweepDone /\ excluding_neutrals /\ ret[2] = 0 /\ error = "none")

----------------------------------------------------------------------------
(* Properties of construction *)

\* the draw _init_spins made for cell rc of a sublattice: black is filled
\* before white, the neutral variant fills the full grid
InitDrawOf(colour, rc) ==
    IF variant = "neutral"
    THEN init_draws[FullGridCell(colour, rc)]
    ELSE init_draws[<<rc[1], (IF colour = "black" THEN 0 ELSE color_width) + rc[2]>>]

\* the state of cell rc of a sublattice, array or list of Trader
SpinAt(lattice, rc) ==
    IF variant = "object"
    THEN lattice[CHOOSE k \in DOMAIN lattice :
                    lattice[k].row = rc[1] /\ lattice[k].col = rc[2]].spin
    ELSE lattice[rc]

IsConstructed == pc = "idle" /\ init_draws # <<>>

\* C12 as stated: in every variant a constructed non-neutral cell is -1
\* exactly when its draw was below init_up, and +1 otherwise.
C12_DownBelowInitUp ==
    IsConstructed =>
        \A rc \in Cells(grid_height, color_width) :
            /\ SpinAt(black, rc) # 0 =>
                 SpinAt(black, rc) = (IF FracLess(InitDrawOf("black", rc), init_up)
                                      THEN -1 ELSE 1)
            /\ SpinAt(white, rc) # 0 =>
                 SpinAt(white, rc) = (IF FracLess(InitDrawOf("white", rc), init_up)
                                      THEN -1 ELSE 1)

\* C12 amended: in the base, crash, privileged and object-per-cell variants
\* a constructed cell is -1 exactly when its draw was below init_up and +1
\* otherwise; in the neutral variant a non-neutral cell is +1 exactly when
\* its draw was below init_up and -1 otherwise, and a cell is 0 exactly when
\* it was chosen as neutral.
C12_InitUpByVariant ==
    IsConstructed =>
        \A colour \in {"black", "white"} : \A rc \in Cells(grid_height, color_width) :
            LET spin == SpinAt(IF colour = "black" THEN black ELSE white, rc)
                below == FracLess(InitDrawOf(colour, rc), init_up)
            IN IF variant = "neutral"
               THEN IF MadeNeutral(colour, rc)
                    THEN spin = 0
                    ELSE spin = (IF below THEN 1 ELSE -1)
               ELSE spin = (IF below THEN -1 ELSE 1)

\* a neutral lattice built with init_up = 1/2: a black cell drew 1/4 and is
\* +1, a white cell drew 3/4 and is -1
C12_Witness ==
    /\ variant = "neutral"
    /\ IsConstructed
    /\ init_up = <<1, 2>>
    /\ \E rc \in Cells(grid_height, color_width) :
         InitDrawOf("black", rc) = <<1, 4>> /\ black[rc] = 1
    /\ \E rc \in Cells(grid_height, color_width) :
         InitDrawOf("white", rc) = <<3, 4>> /\ white[rc] = -1

\* C16 as stated: an object is constructed only from a positive height, a
\* positive even width and fractions in [0, 1]; every other constructor
\* call fails.
C16_InvalidConfigurationFails ==
    pc = "idle" =>
        /\ grid_height > 0
        /\ grid_width > 0
        /\ grid_width % 2 = 0
        /\ ~FracLess(init_up, <<0, 1>>) /\ ~FracLess(<<1, 1>>, init_up)
        /\ ~FracLess(<<1, 1>>, fraction_neutral)
        /\ ~FracLess(<<1, 1>>, privileged_fraction)

\* C20: for a lattice of even width, reconstruct_grid(black, white) is an
\* H x W grid whose even columns are black and whose odd columns are white
\* in every row; slicing it by column parity gives black and white back; in
\* the neutral variant it is the full grid the constructor sliced.
C20_ReconstructInverts ==
    (grid # <<>> /\ grid_width % 2 = 0) =>
        /\ DOMAIN grid = (0 .. grid_height - 1) \X (0 .. grid_width - 1)
        /\ \A r \in 0 .. grid_height - 1 : \A c \in 0 .. color_width - 1 :
             /\ grid[<<r, 2 * c>>] = black[<<r, c>>]
             /\ grid[<<r, 2 * c + 1>>] = white[<<r, c>>]
        /\ ColumnSlice(grid, grid_height, color_width, 0) = black
        /\ ColumnSlice(grid, grid_height, color_width, 1) = white
        /\ variant = "neutral" => grid = full_grid

\* a neutral lattice whose two sublattices differ was put together again
C20_Witness ==
    /\ variant = "neutral"
    /\ grid # <<>>
    /\ grid_width = 4
    /\ grid[<<0, 1>>] = 0
    /\ grid[<<0, 0>>] = 1
    /\ grid[<<0, 2>>] = -1
    /\ black # white

----------------------------------------------------------------------------
(* Properties of the crash operator *)

C14_RandomForced ==
    /\ (call # <<>> /\ call[2] = "random") =>
         LET cells == Cells(grid_height, color_width)
             n == (call[1][1] * Cardinality(cells)) \div call[1][2]
         IN /\ error = "none"
            /\ \E chosen \in SUBSET cells :
                 /\ Cardinality(chosen) = n
                 /\ \A rc \in cells :
                      black[rc] = (IF rc \in chosen THEN -1 ELSE before[1][rc])
            /\ \E chosen \in SUBSET cells :
                 /\ Cardinality(chosen) = n
                 /\ \A rc \in cells :
                      white[rc] = (IF rc \in chosen THEN -1 ELSE before[2][rc])
            /\ call[1] = <<0, 1>> => <<black, white>> = before
            /\ call[1] = <<1, 1>> => \A rc \in cells : black[rc] = -1 /\ white[rc] = -1
    /\ call # <<>> =>
         \A rc \in Cells(grid_height, color_width) :
             /\ before[1][rc] = -1 => black[rc] = -1
             /\ before[2][rc] = -1 => white[rc] = -1

\* half of two cells: one black cell went from +1 to -1, the white cell
\* chosen was -1 already
C14_Witness ==
    /\ call = <<<<1, 2>>, "random">>
    /\ grid_height * color_width = 2
    /\ \E rc \in Cells(grid_height, color_width) : before[1][rc] = 1 /\ black[rc] = -1
    /\ \E rc \in Cells(grid_height, color_width) : black[rc] = 1
    /\ white = before[2]
    /\ \E rc \in Cells(grid_height, color_width) : white[rc] = 1

\* C15: a crash call with a region tag outside the five known ones raises
\* ValueError and leaves black and white as they were; the neutral
\* constructor called with such a tag raises ValueError and constructs
\* nothing.
C15_InvalidRegionRaises ==
    /\ (call # <<>> /\ call[2] \notin Regions) =>
         /\ error = "ValueError"
         /\ <<black, white>> = before
    /\ (variant = "neutral" /\ region_neutral \notin Regions /\ pc # "new") =>
         /\ pc = "failed"
         /\ error = "ValueError"
         /\ black = <<>>
         /\ white = <<>>

\* a crash call with the tag "center" on a lattice that holds a +1
C15_Witness ==
    /\ variant = "krach"
    /\ call # <<>>
    /\ call[2] = "center"
    /\ error = "ValueError"
    /\ \E rc \in Cells(grid_height, color_width) : black[rc] = 1

----------------------------------------------------------------------------
(* Properties of the neutral and the privileged cells *)

\* C17: in the neutral variant built with region random and fraction f,
\* the cells holding 0 in black and white together number floor(f x H x W),
\* at construction and after any number of sweeps.
C17_RandomNeutralCount ==
    (variant = "neutral" /\ region_neutral = "random") =>
        Cardinality({rc \in Cells(grid_height, color_width) : black[rc] = 0})
        + Cardinality({rc \in Cells(grid_height, color_width) : white[rc] = 0})
        = (fraction_neutral[1] * grid_height * grid_width) \div fraction_neutral[2]

\* half of four cells are neutral, both in black, after a sweep that drew
\* for both white cells
C17_Witness ==
    /\ variant = "neutral"
    /\ region_neutral = "random"
    /\ fraction_neutral = <<1, 2>>
    /\ grid_height * grid_width = 4
    /\ SweepDone
    /\ \A rc \in Cells(grid_height, color_width) :
         black[rc] = 0 /\ resampled["white"][rc] = 1

\* C18: in every state reached by update calls the two privileged masks
\* are the masks chosen at construction and the cells holding 0 are the
\* cells made neutral at construction (none in the privileged variant).
C18_MasksFixed ==
    /\ variant = "advantage" =>
         /\ <<black_privileged, white_privileged>> = privileged_chosen
         /\ \A rc \in Cells(grid_height, color_width) :
              black[rc] \in {-1, 1} /\ white[rc] \in {-1, 1}
    /\ variant = "neutral" =>
         \A rc \in Cells(grid_height, color_width) :
             /\ black[rc] = 0 <=> MadeNeutral("black", rc)
             /\ white[rc] = 0 <=> MadeNeutral("white", rc)

\* a sweep of the privileged variant drew for a privileged black cell, which
\* is -1, and for a white cell that is not privileged
C18_Witness ==
    /\ variant = "advantage"
    /\ SweepDone
    /\ privileged_flip_factor = <<2, 1>>
    /\ \E rc \in Cells(grid_height, color_width) :
         /\ black_privileged[rc]
         /\ black[rc] = -1
         /\ resampled["black"][rc] = 1
    /\ \E rc \in Cells(grid_height, color_width) :
         /\ ~white_privileged[rc]
         /\ resampled["white"][rc] = 1

\* C19: the probability applied to a privileged cell is
\* min(base_prob x factor, 1) and to any other cell base_prob; it never
\* exceeds 1; for a factor >= 1 it is at least base_prob; and when it is 1
\* the cell becomes +1 whatever the draw.
C19_CappedProbability ==
    pc = "decided" =>
        LET product == <<base_prob[1] * privileged_flip_factor[1],
                         base_prob[2] * privileged_flip_factor[2]>>
        IN /\ black_privileged[<<row, col>>] =>
                IF product[1] <= product[2]
                THEN prob[1] * product[2] = product[1] * prob[2]
                ELSE prob[1] = prob[2]
           /\ ~black_privileged[<<row, col>>] => prob = base_prob
           /\ prob[1] <= prob[2]
           /\ privileged_flip_factor[1] >= privileged_flip_factor[2] =>
                base_prob[1] * prob[2] <= prob[1] * base_prob[2]
           /\ prob[1] = prob[2] => black[<<row, col>>] = 1

\* 3/4 times 3/2 is capped to 1 and the largest draw still gives +1
C19_Witness ==
    /\ pc = "decided"
    /\ black_privileged[<<row, col>>]
    /\ base_prob = <<3, 4>>
    /\ privileged_flip_factor = <<3, 2>>
    /\ prob = <<1, 1>>
    /\ draw = <<3, 4>>
    /\ black[<<row, col>>] = 1

----------------------------------------------------------------------------
(* The object-per-cell variant against the arrays *)

\* the sublattice array that holds the spins of a list of Trader
ArrayOf(traders) ==
    [rc \in Cells(grid_height, color_width) |-> SpinAt(traders, rc)]

\* C21 as stated: for every cell of every sublattice the object-per-cell
\* variant reads the four cells the base variant reads on the array with the
\* same spins, and so computes the same neighbour sum.
C21_SameReadsAsArrays ==
    (variant = "object" /\ Called) =>
        /\ error = "none"
        /\ reads = NeighbourReads("base", pc = "black", grid_height, color_width,
                                  row, col)
        /\ neighbour_sum = ComputeNeighbourSum("base", pc = "black",
                                               ArrayOf(IF pc = "black" THEN white
                                                       ELSE black),
                                               grid_height, color_width, row, col)

InPhase == pc \in {"black", "white"} /\ phase_start # <<>>

\* C22: within one phase the active sublattice does not depend on the order
\* in which its cells are evaluated: every cell evaluated so far, in whatever
\* order, holds the value the row-major loop gives it with the same draws,
\* every cell still to be evaluated holds the value it had when the phase
\* began, and the sublattice not being updated is not written
C22_OrderIndependent ==
    InPhase =>
        /\ \A rc \in Cells(grid_height, color_width) :
              Source[rc] = IF rc \in pending
                           THEN phase_start[rc]
                           ELSE RowMajorPhase(phase_start, phase_draws, 0)[rc]
        /\ pending = {} => Source = RowMajorPhase(phase_start, phase_draws, 0)

\* a later cell of the row-major order was evaluated, and changed, before
\* the first one, and its neighbour sum was not zero
C22_Witness ==
    /\ InPhase
    /\ pending = {<<0, 0>>}
    /\ Cardinality(Cells(grid_height, color_width)) >= 2
    /\ reduced_neighbour_coupling # 0
    /\ \E rc \in Cells(grid_height, color_width) \ pending :
          /\ Source[rc] # phase_start[rc]
          /\ ComputeNeighbourSum(variant, pc = "black", CheckerboardAgents,
                                 grid_height, color_width, rc[1], rc[2]) # 0

----------------------------------------------------------------------------
(* The lattice the neighbour sums imply: each row alternates the columns
   of the two sublattices *)

\* the column of the H x W grid at which cell (r, c) of a sublattice sits:
\* black at 2c + 1 on even rows and 2c on odd rows, white at the other one
PhysicalColumn(is_black, r, c) ==
    IF is_black = (r % 2 = 0) THEN 2 * c + 1 ELSE 2 * c

PhysicalCell(is_black, rc) == <<rc[1], PhysicalColumn(is_black, rc[1], rc[2])>>

\* the cells of the H x W grid that hold a neutral trader
PhysicalNeutrals ==
    {PhysicalCell(TRUE, rc) : rc \in {x \in DOMAIN black : black[x] = 0}}
        \cup {PhysicalCell(FALSE, rc) : rc \in {x \in DOMAIN white : white[x] = 0}}

\* C23 as stated: a neutral lattice built with a quadrant region and
\* fraction f has every 0 cell inside that quadrant of the H x W grid, rows
\* split at H // 2 and columns at W // 2, exactly int(f * quadrant cell
\* count) cells are 0, and every cell outside the quadrant is -1 or +1
C23_NeutralsInPhysicalQuadrant ==
    (variant = "neutral" /\ region_neutral # "random") =>
        LET top == region_neutral \in {"top_left", "top_right"}
            left == region_neutral \in {"top_left", "bottom_left"}
            quadrant == {ij \in Cells(grid_height, grid_width) :
                            /\ top <=> ij[1] < grid_height \div 2
                            /\ left <=> ij[2] < grid_width \div 2}
        IN /\ PhysicalNeutrals \subseteq quadrant
           /\ Cardinality(PhysicalNeutrals)
                = TruncDiv(fraction_neutral[1] * Cardinality(quadrant),
                           fraction_neutral[2])
           /\ \A colour \in BOOLEAN : \A rc \in Cells(grid_height, color_width) :
                 PhysicalCell(colour, rc) \notin quadrant =>
                     (IF colour THEN black ELSE white)[rc] \in {-1, 1}

\* C24: the cell the call is made for reads a cell y of the other sublattice
\* exactly as many times as y, when the call is made for it on the other
\* colour, reads that cell, for every height and width of the sublattice
C24_SymmetricReads ==
    Called =>
        /\ error = "none"
        /\ \A y \in Cells(grid_height, color_width) :
              Cardinality({k \in 1 .. 4 : reads[k] = y})
                = Cardinality({k \in 1 .. 4 :
                      NeighbourReads(variant, pc # "black", grid_height, color_width,
                                     y[1], y[2])[k] = <<row, col>>})

\* a black cell of a sublattice of three columns or more reads the cell
\* above and below it twice (two rows) and its right-hand cell once
C24_Witness ==
    /\ pc = "black"
    /\ error = "none"
    /\ grid_height = 2
    /\ color_width >= 3
    /\ row = 0
    /\ Cardinality({k \in 1 .. 4 : reads[k] = <<1, col>>}) = 2
    /\ Cardinality({k \in 1 .. 4 : reads[k] = <<0, (col + 1) % color_width>>}) = 1

\* C25: for an even height the cells read are, in the order of the code, the
\* cell above, the cell below and the two cells beside the updated cell on
\* the torus of H rows and W columns, each sublattice cell taken at its
\* column of the row-alternating layout
C25_ToroidalNeighbours ==
    (Called /\ grid_height % 2 = 0) =>
        /\ error = "none"
        /\ LET me == PhysicalCell(pc = "black", <<row, col>>)
               rd == [k \in 1 .. 4 |-> PhysicalCell(pc # "black", reads[k])]
               up == <<(me[1] - 1) % grid_height, me[2]>>
               down == <<(me[1] + 1) % grid_height, me[2]>>
               left == <<me[1], (me[2] - 1) % grid_width>>
               right == <<me[1], (me[2] + 1) % grid_width>>
           IN /\ rd[1] = up
              /\ rd[2] = down
              /\ \/ rd[3] = left /\ rd[4] = right
                 \/ rd[3] = right /\ rd[4] = left

\* the black cell of the last column of row 0: its right-hand neighbour on
\* the torus is column 0 of the grid, the first white cell of the row
C25_Witness ==
    /\ pc = "black"
    /\ error = "none"
    /\ grid_height = 2
    /\ color_width = 3
    /\ row = 0
    /\ col = 2
    /\ PhysicalCell(TRUE, <<row, col>>) = <<0, 5>>
    /\ reads[4] = <<0, 0>>
    /\ PhysicalCell(FALSE, reads[4]) = <<0, 0>>

====
